---- MODULE Spec2Model ----
(***************************************************************************)
(* Chat history store, configuration provider, search index manager and   *)
(* chat hook of health-copilot (src/ui/storage/ChatStorage.ts,             *)
(* src/unnamed/part_006, src/hevy/api/index.js).                           *)
(*                                                                         *)
(* The persistent store (AsyncStorage) is a set of keys.  Every storage    *)
(* call of an operation may reject: an operation takes the set F of the    *)
(* ordinals of its storage calls that reject, and the world record w       *)
(* threads the count n of the calls made so far.                           *)
(***************************************************************************)
EXTENDS Integers, Sequences, FiniteSets, TLC

VARIABLES
  records,             \* AsyncStorage: key chat_sessions_<id> -> stored value
  chatIndex,           \* AsyncStorage: key chat_index
  currentChatKey,      \* AsyncStorage: key current_chat_id
  configBlob,          \* AsyncStorage: key chat_config
  config,              \* ConfigManager.config
  configInitialized,   \* ConfigManager.initialized
  storageInitialized,  \* ChatStorage.initialized
  fuse,                \* SearchIndexManager.fuse (the collection it was built over)
  chats,               \* SearchIndexManager.chats
  searchInitialized,   \* SearchIndexManager.initialized
  now,                 \* the clock read by new Date()
  lastOp,              \* history: the operation that completed last
  saveOrder,           \* history: ids by their last successful saveChat, latest
                       \* first, without those a successful delete or clear removed
  pure,                \* history: only failure-free saveChat calls so far
  hook,                \* useChat: the hook's state, its pending auto-save timer
  destroyed,           \* history: sessions deleteCurrentChat deleted, no send since
  calls                \* the saveChat and deleteChat calls that are in flight, where
                       \* calls are followed from one storage call to the next

vars == <<records, chatIndex, currentChatKey, configBlob, config,
          configInitialized, storageInitialized, fuse, chats,
          searchInitialized, now, lastOp, saveOrder, pure, hook, destroyed, calls>>

hookVars == <<hook, destroyed, calls>>

---------------------------------------------------------------------------
(* Bounds *)
MaxIds == 3        \* session ids 1..MaxIds
MaxHist == 2       \* configured maxChatHistory values 1..MaxHist (and the default)
MaxFaultIds == 2   \* session ids used where storage calls may reject
MaxContentIds == 1 \* session ids used where the session contents vary
MaxSearchIds == 1  \* session ids used with the search index
MaxMessages == 3   \* messages of a conversation in the chat screen
MaxHookIds == 2    \* session ids the chat screen is given
MaxQueryIds == 3   \* session ids saved where searchChats is called
MaxLimit == 2      \* limits passed to getChats, maxChatsInDrawer values: 0..MaxLimit
MaxIO == 8         \* storage calls of one operation that may reject: 1..MaxIO
MaxFaults == 1     \* storage calls that reject within one operation
MaxTime == 1       \* clock values 0..MaxTime
MaxTitleLen == 2   \* messages of the conversations given to generateTitle
MaxCalls == 2      \* saveChat and deleteChat calls in flight at once

(* Program constants *)
PreviewLen == 100
DefaultMaxChatsInDrawer == 20
DefaultMaxChatHistory == 100
DefaultSearchDebounceMs == 300
DefaultAutoSaveIntervalMs == 5000

ChatIds == 1..MaxIds
HistValues == 1..MaxHist

Range(s) == {s[i] : i \in 1..Len(s)}
NoDup(s) == \A i, j \in 1..Len(s) : s[i] = s[j] => i = j
Min(a, b) == IF a < b THEN a ELSE b

FailSets == {F \in SUBSET (1..MaxIO) : Cardinality(F) <= MaxFaults}

---------------------------------------------------------------------------
(* Values *)
Null == [kind |-> "null"]
Absent == [kind |-> "absent"]       \* getItem resolves null: the key is not set
Garbage == [kind |-> "garbage"]     \* a non-empty string JSON.parse rejects

DEFAULT_CONFIG ==
  [maxChatsInDrawer |-> DefaultMaxChatsInDrawer,
   maxChatHistory |-> DefaultMaxChatHistory,
   searchDebounceMs |-> DefaultSearchDebounceMs,
   autoSaveIntervalMs |-> DefaultAutoSaveIntervalMs,
   enableSearchIndexing |-> TRUE]

\* { ...base, ...updates }
Spread(base, updates) ==
  [f \in DOMAIN base \cup DOMAIN updates |->
     IF f \in DOMAIN updates THEN updates[f] ELSE base[f]]

\* Dates are instants [ms |-> t]; JSON.stringify writes them as ISO strings.
Date(t) == [ms |-> t]
toISOString(d) == [iso |-> d.ms]
\* new Date(x) of what JSON.parse returned for a date field
NewDate(x) == IF "iso" \in DOMAIN x THEN [ms |-> x.iso] ELSE [ms |-> 0]

substring(text, from, to) == SubSeq(text, from + 1, Min(to, Len(text)))

\* JSON.stringify(updatedChat)
StringifyMessage(m) ==
  [id |-> m.id, role |-> m.role, text |-> m.text,
   timestamp |-> toISOString(m.timestamp)]

JSONstringify(chat) ==
  [kind |-> "json",
   id |-> chat.id,
   title |-> chat.title,
   createdAt |-> toISOString(chat.createdAt),
   updatedAt |-> toISOString(chat.updatedAt),
   messages |-> [i \in 1..Len(chat.messages) |-> StringifyMessage(chat.messages[i])],
   metadata |-> chat.metadata]

\* JSON.parse(data) as ChatSession: date fields are still strings
JSONparse(data) ==
  [id |-> data.id, title |-> data.title, createdAt |-> data.createdAt,
   updatedAt |-> data.updatedAt, messages |-> data.messages,
   metadata |-> data.metadata]

\* the message left as JSON.parse returned it
ReviveMessageNot(m) == m

\* getChat: convert date strings back to Date objects
ReviveMessage(m) == [m EXCEPT !.timestamp = NewDate(m.timestamp)]

ReviveDates(chat) ==
  [chat EXCEPT !.createdAt = NewDate(chat.createdAt),
               !.updatedAt = NewDate(chat.updatedAt),
               !.messages = [i \in 1..Len(chat.messages) |->
                               ReviveMessage(chat.messages[i])]]

---------------------------------------------------------------------------
(* The world the operations act on *)
World ==
  [records |-> records, index |-> chatIndex, current |-> currentChatKey,
   blob |-> configBlob, config |-> config, cfgInit |-> configInitialized,
   stInit |-> storageInitialized, fuse |-> fuse, chats |-> chats,
   srInit |-> searchInitialized, n |-> 0]

Commit(w) ==
  /\ records' = w.records
  /\ chatIndex' = w.index
  /\ currentChatKey' = w.current
  /\ configBlob' = w.blob
  /\ config' = w.config
  /\ configInitialized' = w.cfgInit
  /\ storageInitialized' = w.stInit
  /\ fuse' = w.fuse
  /\ chats' = w.chats
  /\ searchInitialized' = w.srInit

\* One storage call: it is call number w.n + 1 of the operation.
Called(w) == [w EXCEPT !.n = @ + 1]
Rejects(w, F) == (w.n + 1) \in F
Faulty(w, F) == F \cap (1..w.n) # {}

ChatKey(id) == [k |-> "chat", id |-> id]
CHAT_INDEX_KEY == [k |-> "index"]
CURRENT_CHAT_KEY == [k |-> "current"]

Stored(w, key) ==
  CASE key.k = "chat" -> w.records[key.id]
    [] key.k = "index" -> w.index
    [] key.k = "current" -> w.current

Put(w, key, data) ==
  CASE key.k = "chat" -> [w EXCEPT !.records[key.id] = data]
    [] key.k = "index" -> [w EXCEPT !.index = data]
    [] key.k = "current" -> [w EXCEPT !.current = data]

\* AsyncStorage.removeItem(key): [w, ok]
removeItem(w, key, F) ==
  IF Rejects(w, F) THEN [w |-> Called(w), ok |-> FALSE]
  ELSE [w |-> Put(Called(w), key, Absent), ok |-> TRUE]

\* ChatStorage.saveToStorage(key, data): [w, ok]; ok = FALSE is the thrown StorageError
saveToStorage(w, key, data, F) ==
  IF Rejects(w, F) THEN [w |-> Called(w), ok |-> FALSE]
  ELSE [w |-> Put(Called(w), key, data), ok |-> TRUE]

\* ChatStorage.loadFromStorage(key): [w, ok, val]; val = Absent is the returned null
loadFromStorage(w, key, F) ==
  IF Rejects(w, F) THEN [w |-> Called(w), ok |-> FALSE, val |-> Absent]
  ELSE [w |-> Called(w), ok |-> TRUE, val |-> Stored(w, key)]

---------------------------------------------------------------------------
(* ConfigManager *)
\* initialize that keeps the config in memory when the stored one cannot be read
configInitializeKeep(w, F) ==
  IF w.cfgInit THEN w
  ELSE LET w1 == Called(w)
       IN IF Rejects(w, F) \/ w.blob.kind = "garbage"
          THEN [w1 EXCEPT !.cfgInit = TRUE]
          ELSE IF w.blob.kind = "json"
          THEN [w1 EXCEPT !.config = Spread(DEFAULT_CONFIG, w.blob.value),
                          !.cfgInit = TRUE]
          ELSE [w1 EXCEPT !.cfgInit = TRUE]

configInitialize(w, F) ==
  IF w.cfgInit THEN w
  ELSE LET w1 == Called(w)
       IN IF Rejects(w, F) \/ w.blob.kind = "garbage"
          THEN [w1 EXCEPT !.config = DEFAULT_CONFIG, !.cfgInit = TRUE]
          ELSE IF w.blob.kind = "json"
          THEN [w1 EXCEPT !.config = Spread(DEFAULT_CONFIG, w.blob.value),
                          !.cfgInit = TRUE]
          ELSE [w1 EXCEPT !.cfgInit = TRUE]

\* updateConfig that assigns the merged config only once it is written
updateConfigWriteFirst(w, updates, F) ==
  LET w1 == [w EXCEPT !.config = Spread(w.config, updates)]
  IN IF Rejects(w, F) THEN [w |-> Called(w), ok |-> FALSE]
     ELSE [w |-> [Called(w1) EXCEPT !.blob = [kind |-> "json", value |-> w1.config]],
           ok |-> TRUE]

\* ConfigManager.updateConfig(updates): [w, ok]
updateConfig(w, updates, F) ==
  LET w1 == [w EXCEPT !.config = Spread(w.config, updates)]
  IN IF Rejects(w1, F) THEN [w |-> Called(w1), ok |-> FALSE]
     ELSE [w |-> [Called(w1) EXCEPT !.blob = [kind |-> "json", value |-> w1.config]],
           ok |-> TRUE]

---------------------------------------------------------------------------
(* ChatStorage *)
initialize(w, F) ==
  IF w.stInit THEN w
  ELSE [configInitialize(w, F) EXCEPT !.stInit = TRUE]

IndexIds(data) == IF data.kind = "json" THEN data.ids ELSE <<>>
StringifyIndex(ids) == [kind |-> "json", ids |-> ids]

\* ChatStorage.getChatIndex(): [w, val]; never throws
getChatIndex(w, F) ==
  LET ld == loadFromStorage(w, CHAT_INDEX_KEY, F)
  IN IF ld.ok /\ ld.val.kind # "garbage"
     THEN [w |-> ld.w, val |-> IndexIds(ld.val)]
     ELSE [w |-> removeItem(ld.w, CHAT_INDEX_KEY, F).w, val |-> <<>>]

\* deleteChat that writes an index without any id
deleteChatEmptying(w0, id, F) ==
  LET w == initialize(w0, F)
      rm == removeItem(w, ChatKey(id), F)
  IN IF ~rm.ok THEN [w |-> rm.w, ok |-> FALSE]
     ELSE saveToStorage(getChatIndex(rm.w, F).w, CHAT_INDEX_KEY, StringifyIndex(<<>>), F)

\* ChatStorage.deleteChat(id): [w, ok]
deleteChat(w0, id, F) ==
  LET w == initialize(w0, F)
      rm == removeItem(w, ChatKey(id), F)
  IN IF ~rm.ok THEN [w |-> rm.w, ok |-> FALSE]
     ELSE LET gi == getChatIndex(rm.w, F)
              updatedIndex == SelectSeq(gi.val, LAMBDA chatId : chatId # id)
          IN saveToStorage(gi.w, CHAT_INDEX_KEY, StringifyIndex(updatedIndex), F)

\* the caller's metadata written as passed in
UpdatedChatKeepMeta(chat, t) == [chat EXCEPT !.updatedAt = Date(t)]

\* saveChat lines 109-119: the record that is written
UpdatedChat(chat, t) ==
  [chat EXCEPT
     !.updatedAt = Date(t),
     !.metadata = [chat.metadata EXCEPT
        !.messageCount = Len(chat.messages),
        !.lastMessagePreview =
           IF chat.messages = <<>> THEN <<>>
           ELSE substring(chat.messages[Len(chat.messages)].text, 0, PreviewLen)]]

\* saveChat lines 129-138: the id goes to the front of the index
indexOf(index, id) ==
  IF id \notin Range(index) THEN 0
  ELSE CHOOSE i \in 1..Len(index) :
         index[i] = id /\ \A j \in 1..(i - 1) : index[j] # id

RemoveAt(index, i) == SubSeq(index, 1, i - 1) \o SubSeq(index, i + 1, Len(index))

\* the id is added when new and left where it is when present
MoveToFrontNewOnly(index, id) ==
  IF id \notin Range(index) THEN <<id>> \o index ELSE index

MoveToFront(index, id) ==
  IF id \notin Range(index) THEN <<id>> \o index
  ELSE IF indexOf(index, id) > 1
  THEN <<id>> \o RemoveAt(index, indexOf(index, id))
  ELSE index

\* index.splice(start): the entries left in the array and the entries returned
spliceOneLater(index, start) ==
  [left |-> SubSeq(index, 1, Min(start + 1, Len(index))),
   removed |-> SubSeq(index, Min(start + 1, Len(index)) + 1, Len(index))]

splice(index, start) ==
  [left |-> SubSeq(index, 1, Min(start, Len(index))),
   removed |-> SubSeq(index, Min(start, Len(index)) + 1, Len(index))]

\* an eviction that drops the ids from the index and leaves their records
deleteEachIndexOnly(w, chatsToRemove, F) == [w |-> w, ok |-> TRUE]

\* saveChat lines 145-147: deleteChat of each evicted id, until one throws
RECURSIVE deleteEach(_, _, _)
deleteEach(w, chatsToRemove, F) ==
  IF chatsToRemove = <<>> THEN [w |-> w, ok |-> TRUE]
  ELSE LET d == deleteChat(w, Head(chatsToRemove), F)
       IN IF ~d.ok THEN d ELSE deleteEach(d.w, Tail(chatsToRemove), F)

\* ChatStorage.saveChat(chat) at time t: [w, ok]
saveChat(w0, chat, t, F) ==
  LET w == initialize(w0, F)
      sv == saveToStorage(w, ChatKey(chat.id), JSONstringify(UpdatedChat(chat, t)), F)
  IN IF ~sv.ok THEN [w |-> sv.w, ok |-> FALSE]
     ELSE LET gi == getChatIndex(sv.w, F)
              index == MoveToFront(gi.val, chat.id)
              maxChats == gi.w.config.maxChatHistory
              ev == IF Len(index) > maxChats
                    THEN deleteEach(gi.w, splice(index, maxChats).removed, F)
                    ELSE [w |-> gi.w, ok |-> TRUE]
              kept == IF Len(index) > maxChats THEN splice(index, maxChats).left
                      ELSE index
          IN IF ~ev.ok THEN [w |-> ev.w, ok |-> FALSE]
             ELSE saveToStorage(ev.w, CHAT_INDEX_KEY, StringifyIndex(kept), F)

\* getChat without the removal of what cannot be read
getChatNoRepair(w0, id, F) ==
  LET w == initialize(w0, F)
      ld == loadFromStorage(w, ChatKey(id), F)
  IN IF ld.ok /\ ld.val.kind = "json"
     THEN [w |-> ld.w, val |-> ReviveDates(JSONparse(ld.val))]
     ELSE [w |-> ld.w, val |-> Null]

\* ChatStorage.getChat(id): [w, val]; val = Null is the returned null; never throws
getChat(w0, id, F) ==
  LET w == initialize(w0, F)
      ld == loadFromStorage(w, ChatKey(id), F)
  IN IF ld.ok /\ ld.val.kind = "absent" THEN [w |-> ld.w, val |-> Null]
     ELSE IF ld.ok /\ ld.val.kind = "json"
     THEN [w |-> ld.w, val |-> ReviveDates(JSONparse(ld.val))]
     ELSE [w |-> deleteChat(ld.w, id, F).w, val |-> Null]

\* getChats lines 166-171: the sessions that load, in order
RECURSIVE getEach(_, _, _)
getEach(w, chatIds, F) ==
  IF chatIds = <<>> THEN [w |-> w, val |-> <<>>]
  ELSE LET g == getChat(w, Head(chatIds), F)
           rest == getEach(g.w, Tail(chatIds), F)
       IN [w |-> rest.w,
           val |-> IF g.val = Null THEN rest.val ELSE <<g.val>> \o rest.val]

\* index.slice(0, end): a negative end counts from the back
slice(index, end) ==
  IF end < 0 THEN SubSeq(index, 1, Len(index) + end)
  ELSE SubSeq(index, 1, Min(end, Len(index)))

\* ChatStorage.getChats(limit): [w, val]; limit = 0 is also the omitted
\* argument, which `limit || maxChatsInDrawer` treats as it treats 0
getChats(w0, limit, F) ==
  LET w == initialize(w0, F)
      gi == getChatIndex(w, F)
      limitToUse == IF limit # 0 THEN limit ELSE gi.w.config.maxChatsInDrawer
  IN getEach(gi.w, slice(gi.val, limitToUse), F)

\* clearAllChats lines 262-265: removeItem of each record, until one rejects
RECURSIVE removeEach(_, _, _)
removeEach(w, chatIds, F) ==
  IF chatIds = <<>> THEN [w |-> w, ok |-> TRUE]
  ELSE LET rm == removeItem(w, ChatKey(Head(chatIds)), F)
       IN IF ~rm.ok THEN rm ELSE removeEach(rm.w, Tail(chatIds), F)

\* ChatStorage.clearAllChats(): [w, ok]
clearAllChats(w0, F) ==
  LET w == initialize(w0, F)
      gi == getChatIndex(w, F)
      rms == removeEach(gi.w, gi.val, F)
  IN IF ~rms.ok THEN rms
     ELSE saveToStorage(rms.w, CHAT_INDEX_KEY, StringifyIndex(<<>>), F)

---------------------------------------------------------------------------
(* SearchIndexManager *)
\* new Fuse(this.chats, ...): the index over the collection it was given
NewFuse(docs) == [docs |-> docs]

\* The calls into Fuse that may throw: T is the set of those that do
FuseCalls == {"build", "query"}

\* SearchIndexManager.rebuildIndex(): w
\* rebuildIndex lines 366-377: this.chats is assigned, this.fuse is assigned
\* only where indexing is enabled; where new Fuse throws, the catch of line
\* 379 leaves this.fuse as it was
SetChats(g, T) ==
  IF g.w.config.enableSearchIndexing /\ "build" \notin T
  THEN [g.w EXCEPT !.chats = g.val, !.fuse = NewFuse(g.val)]
  ELSE [g.w EXCEPT !.chats = g.val]

rebuildIndex(w, F, T) == SetChats(getChats(w, w.config.maxChatHistory, F), T)

\* initialize that rebuilds on every call
searchInitializeAlways(w, F, T) ==
  [rebuildIndex(configInitialize(w, F), F, T) EXCEPT !.srInit = TRUE]

\* SearchIndexManager.initialize(): w
searchInitialize(w, F, T) ==
  IF w.srInit THEN w
  ELSE [rebuildIndex(configInitialize(w, F), F, T) EXCEPT !.srInit = TRUE]

\* SearchIndexManager.refreshIndex(): w
refreshIndex(w, F, T) == rebuildIndex(w, F, T)

\* query.trim() is empty
Whitespace == {" ", "\t", "\n"}
IsBlank(query) == \A i \in 1..Len(query) : query[i] \in Whitespace

\* the documents at the positions in hits, in order
RECURSIVE Pick(_, _, _)
Pick(docs, hits, i) ==
  IF i > Len(docs) THEN <<>>
  ELSE (IF i \in hits THEN <<docs[i]>> ELSE <<>>) \o Pick(docs, hits, i + 1)

\* SearchIndexManager.search(query): [w, val, ok]; hits are the positions of
\* the documents that Fuse's fuzzy matcher reports for the query
searchIn(w, query, hits, T) ==
  IF IsBlank(query) \/ w.fuse = Null THEN [w |-> w, val |-> <<>>, ok |-> TRUE]
  ELSE IF "query" \in T THEN [w |-> w, val |-> <<>>, ok |-> TRUE]
  ELSE [w |-> w, val |-> Pick(w.fuse.docs, hits, 1), ok |-> TRUE]

search(w0, query, hits, F, T) ==
  searchIn(searchInitialize(w0, F, T), query, hits, T)

\* SearchIndexManager.getIndexSize()
getIndexSize(w) == Len(w.chats)

\* useChatHistory.clearAllChats: [w, ok]
Refreshed(c, F) == IF ~c.ok THEN c ELSE [w |-> refreshIndex(c.w, F, {}), ok |-> TRUE]

historyClearAllChats(w, F) == Refreshed(clearAllChats(w, F), F)

---------------------------------------------------------------------------
(* ChatTitleGenerator: texts are sequences of characters *)
MAX_TITLE_LENGTH == 50
MIN_TITLE_LENGTH == 10

UpperCase ==
  <<"A", "B", "C", "D", "E", "F", "G", "H", "I", "J", "K", "L", "M",
    "N", "O", "P", "Q", "R", "S", "T", "U", "V", "W", "X", "Y", "Z">>

LowerCase ==
  <<"a", "b", "c", "d", "e", "f", "g", "h", "i", "j", "k", "l", "m",
    "n", "o", "p", "q", "r", "s", "t", "u", "v", "w", "x", "y", "z">>

\* the position of a character among the letters of one case, 0 for any other
LetterOf(letters, char) ==
  IF \E i \in 1..Len(letters) : letters[i] = char
  THEN CHOOSE i \in 1..Len(letters) : letters[i] = char
  ELSE 0

toLowerCase(text) ==
  [i \in 1..Len(text) |->
     IF LetterOf(UpperCase, text[i]) # 0
     THEN LowerCase[LetterOf(UpperCase, text[i])] ELSE text[i]]

toUpperCase(text) ==
  [i \in 1..Len(text) |->
     IF LetterOf(LowerCase, text[i]) # 0
     THEN UpperCase[LetterOf(LowerCase, text[i])] ELSE text[i]]

\* String.prototype.trim
trim(text) ==
  LET inked == {i \in 1..Len(text) : text[i] \notin Whitespace}
  IN IF inked = {} THEN <<>>
     ELSE SubSeq(text, CHOOSE i \in inked : \A j \in inked : i <= j,
                       CHOOSE i \in inked : \A j \in inked : i >= j)

startsWith(text, prefix) ==
  Len(text) >= Len(prefix) /\ SubSeq(text, 1, Len(prefix)) = prefix

\* String.prototype.lastIndexOf: the 0-based position, -1 when there is none
lastIndexOf(text, char) ==
  LET at == {i \in 1..Len(text) : text[i] = char}
  IN IF at = {} THEN -1 ELSE (CHOOSE i \in at : \A j \in at : i >= j) - 1

\* text.replace(/[.!?]+$/, "")
StripTrailingPunctuation(text) ==
  LET kept == {i \in 1..Len(text) : text[i] \notin {".", "!", "?"}}
  IN IF kept = {} THEN <<>>
     ELSE SubSeq(text, 1, CHOOSE i \in kept : \A j \in kept : i >= j)

\* the decimal digits of a number below 100
Digit(d) == <<"0", "1", "2", "3", "4", "5", "6", "7", "8", "9">>[d + 1]
NumberToString(k) == IF k < 10 THEN <<Digit(k)>> ELSE <<Digit(k \div 10), Digit(k % 10)>>

NewChatTitle ==
  <<"N", "e", "w", " ", "C", "h", "a", "t">>

WelcomeText ==
  <<"H", "i", "!", " ", "I", "'", "m", " ", "y", "o", "u", "r", " ", "A",
    "I", " ", "f", "i", "t", "n", "e", "s", "s", " ", "c", "o", "a", "c",
    "h", ".", " ", "A", "s", "k", " ", "m", "e", " ", "a", "n", "y", "t",
    "h", "i", "n", "g", " ", "t", "o", " ", "g", "e", "t", " ", "s", "t",
    "a", "r", "t", "e", "d", ".">>

ApologyText ==
  <<"S", "o", "r", "r", "y", ",", " ", "I", " ", "r", "a", "n", " ", "i",
    "n", "t", "o", " ", "a", " ", "p", "r", "o", "b", "l", "e", "m", ".",
    " ", "P", "l", "e", "a", "s", "e", " ", "t", "r", "y", " ", "a", "g",
    "a", "i", "n", ".">>

Prefixes ==
  << <<"c", "a", "n", " ", "y", "o", "u">>,
     <<"c", "o", "u", "l", "d", " ", "y", "o", "u">>,
     <<"p", "l", "e", "a", "s", "e">>,
     <<"h", "e", "l", "p", " ", "m", "e">>,
     <<"i", " ", "n", "e", "e", "d">>,
     <<"i", " ", "w", "a", "n", "t">>,
     <<"h", "o", "w", " ", "d", "o", " ", "i">>,
     <<"w", "h", "a", "t", " ", "i", "s">>,
     <<"w", "h", "a", "t", " ", "a", "r", "e">>,
     <<"w", "h", "e", "r", "e", " ", "i", "s">>,
     <<"w", "h", "e", "n", " ", "i", "s">>,
     <<"w", "h", "y", " ", "i", "s">>,
     <<"t", "e", "l", "l", " ", "m", "e">>,
     <<"e", "x", "p", "l", "a", "i", "n">>,
     <<"s", "h", "o", "w", " ", "m", "e">>,
     <<"g", "i", "v", "e", " ", "m", "e">> >>

\* cleanTitle lines 62-67: the first listed prefix that matches is removed
RECURSIVE RemovePrefix(_, _)
RemovePrefix(cleaned, k) ==
  IF k > Len(Prefixes) THEN cleaned
  ELSE IF startsWith(cleaned, Prefixes[k] \o <<" ">>)
  THEN SubSeq(cleaned, Len(Prefixes[k]) + 2, Len(cleaned))
  ELSE RemovePrefix(cleaned, k + 1)

\* ChatTitleGenerator.cleanTitle
cleanTitle(title) ==
  LET stripped == RemovePrefix(toLowerCase(title), 1)
      capitalized == IF stripped = <<>> THEN <<>>
                     ELSE toUpperCase(<<Head(stripped)>>) \o Tail(stripped)
  IN StripTrailingPunctuation(capitalized)

\* now.toLocaleTimeString([], {hour: "2-digit", minute: "2-digit"}): the
\* clock's minute, in the form the locale gives it
TimeString(t) == <<"0", "0", ":">> \o NumberToString(t + 10)

\* ChatTitleGenerator.generateFallbackTitle
generateFallbackTitle(messages, t) ==
  IF Len(messages) <= 1
  THEN <<"C", "h", "a", "t", " ", "a", "t", " ">> \o TimeString(t)
  ELSE IF Len(messages) <= 5
  THEN <<"Q", "u", "i", "c", "k", " ", "C", "h", "a", "t", " ", "(">>
         \o NumberToString(Len(messages))
         \o <<" ", "m", "e", "s", "s", "a", "g", "e", "s", ")">>
  ELSE <<"C", "h", "a", "t", " ", "S", "e", "s", "s", "i", "o", "n", " ", "(">>
         \o NumberToString(Len(messages))
         \o <<" ", "m", "e", "s", "s", "a", "g", "e", "s", ")">>

\* generateTitle lines 21-29
Truncate(title) ==
  IF Len(title) > MAX_TITLE_LENGTH
  THEN LET cut == trim(substring(title, 0, MAX_TITLE_LENGTH))
           lastSpace == lastIndexOf(cut, " ")
       IN (IF lastSpace > MIN_TITLE_LENGTH THEN substring(cut, 0, lastSpace) ELSE cut)
            \o <<".", ".", ".">>
  ELSE title

\* generateTitle that returns the cleaned text whatever its length
generateTitleAsCleaned(messages, t) ==
  LET users == SelectSeq(messages, LAMBDA msg : msg.role = "user")
  IN IF users = <<>> THEN NewChatTitle
     ELSE Truncate(cleanTitle(trim(Head(users).text)))

\* ChatTitleGenerator.generateTitle
generateTitle(messages, t) ==
  LET users == SelectSeq(messages, LAMBDA msg : msg.role = "user")
  IN IF users = <<>> THEN NewChatTitle
     ELSE LET title == Truncate(cleanTitle(trim(Head(users).text)))
              ensured == IF Len(title) < MIN_TITLE_LENGTH
                         THEN generateFallbackTitle(messages, t) ELSE title
          IN IF ensured = <<>> THEN NewChatTitle ELSE ensured

---------------------------------------------------------------------------
(* ChatStorage.searchChats *)
\* String.prototype.includes
includes(text, term) ==
  \E i \in 0..(Len(text) - Len(term)) : SubSeq(text, i + 1, i + Len(term)) = term

\* the search term compared as typed
FilterExact(chat, searchTerm) ==
  \/ includes(chat.title, searchTerm)
  \/ \E i \in 1..Len(chat.messages) : includes(chat.messages[i].text, searchTerm)

\* searchChats lines 240-248: the test of one session
Filter(chat, searchTerm) ==
  \/ includes(toLowerCase(chat.title), searchTerm)
  \/ \E i \in 1..Len(chat.messages) :
       includes(toLowerCase(chat.messages[i].text), searchTerm)

\* searchChats lines 237-248, after getChats
Filtered(allChats, searchTerm) ==
  [w |-> allChats.w,
   val |-> SelectSeq(allChats.val, LAMBDA chat : Filter(chat, searchTerm))]

\* searchChats lines 235-248, after initialize
searchChatsIn(w, query, F) ==
  IF IsBlank(query) THEN [w |-> w, val |-> <<>>]
  ELSE Filtered(getChats(w, w.config.maxChatHistory, F), toLowerCase(query))

\* ChatStorage.searchChats(query): [w, val]; never throws
searchChats(w0, query, F) == searchChatsIn(initialize(w0, F), query, F)

---------------------------------------------------------------------------
(* Inputs *)
TextSleep == <<"s", "l", "e", "e", "p">>
TextRun == <<"R", "u", "n">>
TextLong == [i \in 1..(PreviewLen + 1) |-> IF i <= PreviewLen THEN "a" ELSE "b"]

Message(id, role, text, t) ==
  [id |-> id, role |-> role, text |-> text, timestamp |-> Date(t)]

Session(id, title, created, messages, meta) ==
  [id |-> id, title |-> title, createdAt |-> Date(created),
   updatedAt |-> Date(created), messages |-> messages, metadata |-> meta]

Meta(count, preview, tags) ==
  [messageCount |-> count, lastMessagePreview |-> preview, tags |-> tags]

\* the session saved where only identity and order matter
OrderChat(id) ==
  Session(id, TextRun, now, <<Message("m1", "user", TextSleep, now)>>,
          Meta(1, TextSleep, <<>>))

\* sessions of varied contents, with metadata a caller may pass in
ContentChats(id) ==
  { Session(id, TextRun, 0, <<>>, Meta(7, TextSleep, <<>>)),
    Session(id, TextSleep, 0,
            <<Message("welcome", "assistant", TextRun, 0),
              Message("m1", "user", TextLong, now)>>,
            Meta(2, TextLong, <<"gym">>)),
    Session(id, TextRun, now,
            <<Message("welcome", "assistant", TextRun, 0),
              Message("m1", "user", TextSleep, 0),
              Message("m2", "assistant", <<>>, now)>>,
            Meta(0, <<>>, <<>>)) }

\* the same session with one more message
GrownChat(id) ==
  Session(id, TextRun, now,
          <<Message("m1", "user", TextSleep, now),
            Message("m2", "assistant", TextRun, now)>>,
          Meta(2, TextRun, <<>>))

SearchChats(id) == {OrderChat(id), GrownChat(id)}
SearchIds == 1..MaxSearchIds
IndexingUpdates == {[enableSearchIndexing |-> b] : b \in BOOLEAN}
Queries == {<<" ">>, TextSleep}

HistUpdates == {[maxChatHistory |-> h] : h \in HistValues}
FaultIds == 1..MaxFaultIds
ContentIds == 1..MaxContentIds
NoFault == {{}}
TextQuestion ==
  <<"C", "a", "n", " ", "y", "o", "u", " ", "p", "l", "a", "n", " ", "m", "y", " ",
    "w", "e", "e", "k", "?">>
MessageTexts == {<<>>, TextQuestion}
InputTexts == {<<>>, <<" ">> \o TextQuestion \o <<" ">>}
ReplyTexts == {TextRun}

\* three sessions for searchChats: "sleep" is in a message of the first only,
\* "run" in the title of the second only, "legs" in both
TextLegs == <<"L", "e", "g", "s">>
TextGoodSleep == <<"G", "o", "o", "d", " ", "S", "l", "e", "e", "p">>
TextRunDay == <<"R", "u", "n", " ", "D", "a", "y">>
TextPlan == <<"P", "l", "a", "n">>
QueryChat(id) ==
  CASE id = 1 -> Session(1, TextLegs, now, <<Message("m1", "user", TextGoodSleep, now)>>,
                         Meta(1, TextGoodSleep, <<>>))
    [] id = 2 -> Session(2, TextRunDay, now,
                         <<Message("welcome", "assistant", TextPlan, now),
                           Message("m1", "user", TextLegs, now)>>,
                         Meta(2, TextLegs, <<>>))
    [] OTHER -> Session(id, TextPlan, now, <<Message("m1", "user", TextPlan, now)>>,
                        Meta(1, TextPlan, <<>>))
SearchTerms == {TextSleep, <<"R", "U", "N">>, <<"l", "e", "g", "s">>, <<" ">>}
QueryIds == 1..MaxQueryIds
Limits == 0..MaxLimit
DrawerUpdates == {[maxChatsInDrawer |-> d] : d \in 1..MaxLimit}

ids == IndexIds(chatIndex)

---------------------------------------------------------------------------
(* ChatStorage: the current chat id, new sessions *)
\* ChatStorage.setCurrentChatId(id): [w, ok]; id = 0 is null
setCurrentChatId(w0, id, F) ==
  LET w == initialize(w0, F)
  IN IF id # 0 THEN saveToStorage(w, CURRENT_CHAT_KEY, [kind |-> "json", id |-> id], F)
     ELSE removeItem(w, CURRENT_CHAT_KEY, F)

\* ChatStorage.getCurrentChatId(): [w, val]; val = 0 is the returned null
getCurrentChatId(w0, F) ==
  LET ld == loadFromStorage(initialize(w0, F), CURRENT_CHAT_KEY, F)
  IN [w |-> ld.w, val |-> IF ld.ok /\ ld.val.kind = "json" THEN ld.val.id ELSE 0]

\* ChatStorage.generateChatId: uuidv4() gives an id that was never given before
generateChatId(h) == h.uuid + 1

---------------------------------------------------------------------------
(* useChat *)
WelcomeMessage(t) == Message("welcome", "assistant", WelcomeText, t)

\* `${Date.now()}-user`, `${Date.now()}-ai`, `${Date.now()}-aierr`
MessageId(t, suffix) ==
  CASE suffix = "user" -> <<"0-user", "1-user", "2-user", "3-user">>[t + 1]
    [] suffix = "ai" -> <<"0-ai", "1-ai", "2-ai", "3-ai">>[t + 1]
    [] suffix = "aierr" -> <<"0-aierr", "1-aierr", "2-aierr", "3-aierr">>[t + 1]

\* what a callback captured at the render that made it
Closure(h) == [kind |-> "closure", currentChatId |-> h.currentChatId,
               messages |-> h.messages]

\* an effect that leaves a pending timer in place and arms one only when none
\* is pending
AutoSaveEffectKeep(h) ==
  [h EXCEPT !.timer = IF ~(h.hasUnsavedChanges /\ Len(h.messages) > 1) THEN Null
                      ELSE IF h.timer # Null THEN h.timer
                      ELSE Closure(h)]

\* the auto-save effect, lines 65-83, after a render in which its dependencies
\* changed: the pending timer is cleared, and one is set when there is
\* something to save
AutoSaveEffect(h) ==
  [h EXCEPT !.timer = IF h.hasUnsavedChanges /\ Len(h.messages) > 1
                      THEN Closure(h) ELSE Null]

\* saveCurrentChat line 130, setHasUnsavedChanges(false), and the effect after it
MarkSaved(h) ==
  IF h.hasUnsavedChanges THEN AutoSaveEffect([h EXCEPT !.hasUnsavedChanges = FALSE])
  ELSE h

\* saveCurrentChat lines 107-121: the session that is saved
BuildChat(h, c, t) ==
  [id |-> IF c.currentChatId = 0 THEN generateChatId(h) ELSE c.currentChatId,
   title |-> generateTitle(c.messages, t),
   createdAt |-> Date(t),
   updatedAt |-> Date(t),
   messages |-> c.messages,
   metadata |-> Meta(Len(c.messages),
                     substring(c.messages[Len(c.messages)].text, 0, PreviewLen),
                     <<>>)]

\* saveCurrentChat lines 125-128, after setCurrentChatId(chat.id)
AfterSetCurrent(sc, h) == [w |-> sc.w, h |-> IF sc.ok THEN MarkSaved(h) ELSE h]

\* saveCurrentChat lines 123-138, after saveChat: a rejection is logged
AfterSave(sv, h, fresh, id, F) ==
  IF ~sv.ok THEN [w |-> sv.w, h |-> h]
  ELSE IF fresh
  THEN AfterSetCurrent(setCurrentChatId(sv.w, id, F), [h EXCEPT !.currentChatId = id])
  ELSE [w |-> sv.w, h |-> MarkSaved(h)]

SaveBuilt(w, h, fresh, chat, t, F) ==
  AfterSave(saveChat(w, chat, t, F), IF fresh THEN [h EXCEPT !.uuid = chat.id] ELSE h,
            fresh, chat.id, F)

\* useChat.saveCurrentChat with what it captured: [w, h]
saveCurrentChat(w, h, c, t, F) ==
  IF Len(c.messages) <= 1 THEN [w |-> w, h |-> h]
  ELSE SaveBuilt(w, h, c.currentChatId = 0, BuildChat(h, c, t), t, F)

\* createNewChat lines 148-161
StartNewChat(s, newId, t, F) ==
  [w |-> setCurrentChatId(s.w, newId, F).w,
   h |-> AutoSaveEffect([s.h EXCEPT !.uuid = newId,
                                    !.currentChatId = newId,
                                    !.messages = <<WelcomeMessage(t)>>,
                                    !.hasUnsavedChanges = FALSE])]

AfterSaveCurrent(s, t, F) == StartNewChat(s, generateChatId(s.h), t, F)

\* useChat.createNewChat with what it captured: [w, h]
createNewChat(w, h, c, t, F) ==
  AfterSaveCurrent(IF Len(c.messages) > 1 THEN saveCurrentChat(w, h, c, t, F)
                   ELSE [w |-> w, h |-> h], t, F)

\* deleteCurrentChat lines 171-177, after deleteChat: a rejection is logged
AfterDelete(d, h, c, t, F) ==
  IF ~d.ok THEN [w |-> d.w, h |-> h]
  ELSE createNewChat(d.w, h, c, t, F)

\* useChat.deleteCurrentChat with what it captured: [w, h]
deleteCurrentChat(w, h, c, t, F) ==
  IF c.currentChatId = 0 THEN [w |-> w, h |-> h]
  ELSE AfterDelete(deleteChat(w, c.currentChatId, F), h, c, t, F)

\* loadChat lines 90-95, after getChat
AfterGet(g, h, chatId, F) ==
  IF g.val = Null THEN [w |-> g.w, h |-> h]
  ELSE [w |-> setCurrentChatId(g.w, chatId, F).w,
        h |-> AutoSaveEffect([h EXCEPT !.currentChatId = chatId,
                                       !.messages = g.val.messages,
                                       !.hasUnsavedChanges = FALSE])]

\* useChat.loadChat(chatId): [w, h]
loadChat(w, h, chatId, F) == AfterGet(getChat(w, chatId, F), h, chatId, F)

\* initializeChat lines 51-54: the stored chat is loaded when there is one
LoadStored(w, h, storedChatId, F) ==
  IF storedChatId # 0 THEN loadChat(w, h, storedChatId, F)
  ELSE [w |-> w, h |-> h]

\* storage serves initializeChat's read before createNewChat's write
MountReadFirst(early, h, t, F) ==
  LoadStored(createNewChat(early.w, h, Closure(h), t, F).w,
             [createNewChat(early.w, h, Closure(h), t, F).h EXCEPT !.mounted = TRUE],
             early.val, F)

\* storage serves createNewChat's write before initializeChat's read
MountWriteFirst(made, F) ==
  LoadStored(getCurrentChatId(made.w, F).w, [made.h EXCEPT !.mounted = TRUE],
             getCurrentChatId(made.w, F).val, F)

\* the two effects of the first render, lines 31-62, without an initialChatId:
\* createNewChat writes the stored current chat id and initializeChat reads
\* it; `readFirst` is the order in which storage serves the two.
Mount(w, h, t, readFirst, F) ==
  IF readFirst
  THEN MountReadFirst(getCurrentChatId(searchInitialize(initialize(w, F), F, {}), F),
                      h, t, F)
  ELSE MountWriteFirst(createNewChat(searchInitialize(initialize(w, F), F, {}), h,
                                     Closure(h), t, F), F)

\* handleSend up to the request to the chat service, lines 197-213
handleSend(h, messageText, input, t) ==
  LET text == IF messageText # <<>> THEN messageText ELSE trim(input)
  IN AutoSaveEffect([h EXCEPT
       !.messages = Append(@, Message(MessageId(t, "user"), "user", text, t)),
       !.hasUnsavedChanges = TRUE,
       !.isTyping = TRUE])

\* handleSend once the chat service has answered or failed, lines 215-238
handleReply(h, aiText, failed, t) ==
  AutoSaveEffect([h EXCEPT
    !.messages = Append(@, IF failed
                           THEN Message(MessageId(t, "aierr"), "assistant", ApologyText, t)
                           ELSE Message(MessageId(t, "ai"), "assistant", aiText, t)),
    !.hasUnsavedChanges = TRUE,
    !.isTyping = FALSE])

---------------------------------------------------------------------------
(* History variables *)
NoOp ==
  [op |-> "none", id |-> 0, ok |-> TRUE, faulty |-> FALSE, pos |-> 0,
   had |-> "absent", arg |-> Null, result |-> Null]

Done(op, id, r, F, arg, result) ==
  [op |-> op, id |-> id, ok |-> r.ok, faulty |-> Faulty(r.w, F),
   pos |-> IF id \in ChatIds THEN indexOf(ids, id) ELSE 0,
   had |-> IF id \in ChatIds THEN records[id].kind ELSE "absent",
   arg |-> arg, result |-> result]

\* the ids of a sequence of sessions
IdsOf(sessions) == [i \in 1..Len(sessions) |-> sessions[i].id]

\* only the calls an operation makes can reject
Real(r, F) == F \subseteq 1..r.w.n

---------------------------------------------------------------------------
(* Operations of the Store and of the Configuration Provider *)
\* what the chat_config key may hold when the application starts
StoredConfigs ==
  {Absent} \cup {[kind |-> "json", value |-> Spread(DEFAULT_CONFIG, u)] : u \in HistUpdates}

InitWith(blobs, conversations) ==
  /\ records = [id \in ChatIds |-> Absent]
  /\ chatIndex = Absent
  /\ currentChatKey = Absent
  /\ configBlob \in blobs
  /\ config = DEFAULT_CONFIG
  /\ configInitialized = FALSE
  /\ storageInitialized = FALSE
  /\ fuse = Null
  /\ chats = <<>>
  /\ searchInitialized = FALSE
  /\ now = 0
  /\ lastOp = NoOp
  /\ saveOrder = <<>>
  /\ pure = TRUE
  /\ hook \in {[mounted |-> FALSE, currentChatId |-> 0,
                 messages |-> messages, hasUnsavedChanges |-> FALSE,
                 isTyping |-> FALSE, timer |-> Null, uuid |-> 0] :
                  messages \in conversations}
  /\ destroyed = {}
  /\ calls = <<>>

Init == InitWith(StoredConfigs, {<<WelcomeMessage(0)>>})

\* saveChat that keeps the search index in step with the Store
SaveChatLive(chat, F) ==
  LET sv == saveChat(World, chat, now, F)
      r == [w |-> rebuildIndex(sv.w, F, {}), ok |-> sv.ok]
  IN /\ Real(r, F)
     /\ Commit(r.w)
     /\ UNCHANGED hookVars
     /\ lastOp' = Done("saveChat", chat.id, r, F, chat, Null)
     /\ saveOrder' = IF r.ok
                     THEN <<chat.id>> \o SelectSeq(saveOrder, LAMBDA c : c # chat.id)
                     ELSE saveOrder
     /\ pure' = (pure /\ r.ok /\ F = {})
     /\ UNCHANGED now

SaveChat(chat, F) ==
  LET r == saveChat(World, chat, now, F)
  IN /\ Real(r, F)
     /\ Commit(r.w)
     /\ UNCHANGED hookVars
     /\ lastOp' = Done("saveChat", chat.id, r, F, chat, Null)
     /\ saveOrder' = IF r.ok
                     THEN <<chat.id>> \o SelectSeq(saveOrder, LAMBDA c : c # chat.id)
                     ELSE saveOrder
     /\ pure' = (pure /\ r.ok /\ F = {})
     /\ UNCHANGED now

DeleteChat(id, F) ==
  LET r == deleteChat(World, id, F)
  IN /\ Real(r, F)
     /\ Commit(r.w)
     /\ UNCHANGED hookVars
     /\ lastOp' = Done("deleteChat", id, r, F, Null, Null)
     /\ saveOrder' = IF r.ok THEN SelectSeq(saveOrder, LAMBDA c : c # id) ELSE saveOrder
     /\ pure' = FALSE
     /\ UNCHANGED now

ClearAllChats(F) ==
  LET r == clearAllChats(World, F)
  IN /\ Real(r, F)
     /\ Commit(r.w)
     /\ UNCHANGED hookVars
     /\ lastOp' = Done("clearAllChats", 0, r, F, [kind |-> "index", ids |-> ids], Null)
     /\ saveOrder' = IF r.ok THEN <<>> ELSE saveOrder
     /\ pure' = FALSE
     /\ UNCHANGED now

\* arg: the session whose successful saveChat this call follows at once
GetChat(id, F) ==
  LET g == getChat(World, id, F)
      r == [w |-> g.w, ok |-> TRUE]
      saved == IF lastOp.op = "saveChat" /\ lastOp.ok /\ lastOp.id = id
               THEN lastOp.arg ELSE Null
  IN /\ Real(r, F)
     /\ Commit(r.w)
     /\ UNCHANGED hookVars
     /\ lastOp' = Done("getChat", id, r, F, saved, g.val)
     /\ pure' = FALSE
     /\ UNCHANGED <<now, saveOrder>>

GetChats(limit, F) ==
  LET g == getChats(World, limit, F)
      r == [w |-> g.w, ok |-> TRUE]
  IN /\ Real(r, F)
     /\ Commit(r.w)
     /\ UNCHANGED hookVars
     /\ lastOp' = Done("getChats", 0, r, F, Null, IdsOf(g.val))
     /\ pure' = FALSE
     /\ UNCHANGED <<now, saveOrder>>

UpdateConfig(updates, F) ==
  LET r == updateConfig(World, updates, F)
  IN /\ Real(r, F)
     /\ Commit(r.w)
     /\ UNCHANGED hookVars
     /\ lastOp' = Done("updateConfig", 0, r, F,
                       [kind |-> "updates", value |-> updates], Null)
     /\ pure' = (pure /\ saveOrder = <<>>)
     /\ UNCHANGED <<now, saveOrder>>

\* the environment replaces a stored session by data that cannot be deserialized
Corrupt(id) ==
  /\ records[id].kind = "json"
  /\ records' = [records EXCEPT ![id] = Garbage]
  /\ UNCHANGED hookVars
  /\ lastOp' = [NoOp EXCEPT !.op = "corrupt", !.id = id]
  /\ pure' = FALSE
  /\ UNCHANGED <<chatIndex, currentChatKey, configBlob, config, configInitialized,
                 storageInitialized, fuse, chats, searchInitialized, now, saveOrder>>

\* time passes
Tick ==
  /\ now < MaxTime
  /\ now' = now + 1
  /\ UNCHANGED <<records, chatIndex, currentChatKey, configBlob, config,
                 configInitialized, storageInitialized, fuse, chats,
                 searchInitialized, lastOp, saveOrder, pure, hook, destroyed, calls>>

(* The Store where every storage call succeeds *)
Next ==
  \/ \E id \in ChatIds : SaveChat(OrderChat(id), {})
  \/ \E id \in ChatIds : DeleteChat(id, {})
  \/ ClearAllChats({})
  \/ \E id \in ChatIds : GetChat(id, {})
  \/ GetChats(0, {})
  \/ \E u \in HistUpdates : UpdateConfig(u, {})
  \/ \E id \in ChatIds : Corrupt(id)

Spec == Init /\ [][Next]_vars

(* The Store where storage calls may reject *)
NextFaults ==
  \/ \E id \in FaultIds, F \in FailSets : SaveChat(OrderChat(id), F)
  \/ \E id \in FaultIds, F \in FailSets : DeleteChat(id, F)
  \/ \E F \in FailSets : ClearAllChats(F)
  \/ \E id \in FaultIds, F \in FailSets : GetChat(id, F)
  \/ \E F \in FailSets : GetChats(0, F)
  \/ \E u \in HistUpdates, F \in FailSets : UpdateConfig(u, F)
  \/ \E id \in FaultIds : Corrupt(id)

SpecFaults == Init /\ [][NextFaults]_vars

(* The Store where the contents of the sessions vary *)
NextContent ==
  \/ \E id \in ContentIds, F \in NoFault :
       \E chat \in ContentChats(id) : SaveChat(chat, F)
  \/ \E id \in ContentIds, F \in NoFault : GetChat(id, F)
  \/ \E id \in ContentIds, F \in NoFault : DeleteChat(id, F)
  \/ \E id \in ContentIds : Corrupt(id)
  \/ Tick

SpecContent == Init /\ [][NextContent]_vars

---------------------------------------------------------------------------
(* Operations of the Search Index Manager *)
\* arg: whether the singleton was initialized when the call was made;
\* result: the number of storage calls the call made
Initialized(op, w, again, F) ==
  /\ Real([w |-> w], F)
  /\ Commit(w)
  /\ UNCHANGED hookVars
  /\ lastOp' = Done(op, 0, [w |-> w, ok |-> TRUE], F,
                    [kind |-> "init", again |-> again], [kind |-> "calls", n |-> w.n])
  /\ pure' = FALSE
  /\ UNCHANGED <<now, saveOrder>>

SearchInitialize(F) ==
  Initialized("searchInitialize", searchInitialize(World, F, {}), searchInitialized, F)

ConfigInitialize(F) ==
  Initialized("configInitialize", configInitialize(World, F), configInitialized, F)

StorageInitialize(F) ==
  Initialized("initialize", initialize(World, F), storageInitialized, F)

RefreshIndex(F) ==
  LET r == [w |-> refreshIndex(World, F, {}), ok |-> TRUE]
  IN /\ Real(r, F)
     /\ Commit(r.w)
     /\ UNCHANGED hookVars
     /\ lastOp' = Done("refreshIndex", 0, r, F, Null, Null)
     /\ pure' = FALSE
     /\ UNCHANGED <<now, saveOrder>>

\* hits: positions in the collection the index was built over
\* T holds "build" only where this call builds the index, and "query" only
\* where it queries it.  arg: the query and the Fuse calls that threw
Searched(g, query, hits, F, T) ==
  /\ Real(g, F)
  /\ g.w.fuse # Null => hits \subseteq 1..Len(g.w.fuse.docs)
  /\ g.w.fuse = Null => hits = {}
  /\ "build" \in T => (~searchInitialized /\ g.w.config.enableSearchIndexing)
  /\ "query" \in T => (~IsBlank(query) /\ g.w.fuse # Null /\ hits = {})
  /\ Commit(g.w)
  /\ UNCHANGED hookVars
  /\ lastOp' = Done("search", 0, g, F,
                    [kind |-> "query", text |-> query, thrown |-> T], IdsOf(g.val))
  /\ pure' = FALSE
  /\ UNCHANGED <<now, saveOrder>>

Search(query, hits, F, T) ==
  Searched(search(World, query, hits, F, T), query, hits, F, T)

HistoryClearAllChats(F) ==
  LET r == historyClearAllChats(World, F)
  IN /\ Real(r, F)
     /\ Commit(r.w)
     /\ UNCHANGED hookVars
     /\ lastOp' = Done("history.clearAllChats", 0, r, F, Null, Null)
     /\ saveOrder' = IF r.ok THEN <<>> ELSE saveOrder
     /\ pure' = FALSE
     /\ UNCHANGED now

(* The Search Index Manager over the Store *)
NextSearch ==
  \/ \E id \in SearchIds : \E chat \in SearchChats(id) : SaveChat(chat, {})
  \/ \E id \in SearchIds : DeleteChat(id, {})
  \/ ClearAllChats({})
  \/ \E u \in IndexingUpdates : UpdateConfig(u, {})
  \/ SearchInitialize({})
  \/ RefreshIndex({})
  \/ \E query \in Queries, hits \in SUBSET SearchIds : Search(query, hits, {}, {})
  \/ HistoryClearAllChats({})

\* no chat_config was persisted: the defaults are in force
InitSearch == Init /\ configBlob = Absent

SpecSearch == InitSearch /\ [][NextSearch]_vars

---------------------------------------------------------------------------
(* searchChats over the Store *)
\* arg: the query
SearchedChats(g, query, F) ==
  /\ Real(g, F)
  /\ Commit(g.w)
  /\ UNCHANGED hookVars
  /\ lastOp' = Done("searchChats", 0, [w |-> g.w, ok |-> TRUE], F,
                    [kind |-> "query", text |-> query], IdsOf(g.val))
  /\ pure' = FALSE
  /\ UNCHANGED <<now, saveOrder>>

StoreSearchChats(query, F) == SearchedChats(searchChats(World, query, F), query, F)

NextQuery ==
  \/ \E id \in QueryIds : SaveChat(QueryChat(id), {})
  \/ \E id \in QueryIds : DeleteChat(id, {})
  \/ \E id \in QueryIds : Corrupt(id)
  \/ \E u \in HistUpdates : UpdateConfig(u, {})
  \/ \E query \in SearchTerms : StoreSearchChats(query, {})

SpecQuery == Init /\ [][NextQuery]_vars

---------------------------------------------------------------------------
(* getChats with a limit *)
\* arg: the limit that was passed
GotChats(g, limit, F) ==
  /\ Real(g, F)
  /\ Commit(g.w)
  /\ UNCHANGED hookVars
  /\ lastOp' = Done("getChats", 0, [w |-> g.w, ok |-> TRUE], F,
                    [kind |-> "limit", value |-> limit], IdsOf(g.val))
  /\ pure' = FALSE
  /\ UNCHANGED <<now, saveOrder>>

GetChatsLimit(limit, F) == GotChats(getChats(World, limit, F), limit, F)

NextLimit ==
  \/ \E id \in ChatIds : SaveChat(OrderChat(id), {})
  \/ \E id \in ChatIds : DeleteChat(id, {})
  \/ \E id \in ChatIds : Corrupt(id)
  \/ \E u \in DrawerUpdates : UpdateConfig(u, {})
  \/ GetChats(0, {})
  \/ \E limit \in Limits : GetChatsLimit(limit, {})

\* no chat_config was persisted
InitLimit == Init /\ configBlob = Absent

SpecLimit == InitLimit /\ [][NextLimit]_vars

---------------------------------------------------------------------------
(* saveChat and deleteChat where storage calls may reject *)
NextDelete ==
  \/ \E id \in FaultIds, F \in FailSets : SaveChat(OrderChat(id), F)
  \/ \E id \in FaultIds, F \in FailSets : DeleteChat(id, F)

\* no chat_config was persisted
InitDelete == Init /\ configBlob = Absent

SpecDelete == InitDelete /\ [][NextDelete]_vars

(* and clearAllChats, and stored sessions that get corrupted *)
NextClear ==
  \/ NextDelete
  \/ \E F \in FailSets : ClearAllChats(F)
  \/ \E id \in FaultIds : Corrupt(id)

SpecClear == InitDelete /\ [][NextClear]_vars

---------------------------------------------------------------------------
(* The initialize operations of the three singletons *)
NextInit ==
  \/ \E F \in FailSets : ConfigInitialize(F)
  \/ \E F \in FailSets : StorageInitialize(F)
  \/ \E F \in FailSets : SearchInitialize(F)
  \/ \E id \in SearchIds : \E chat \in SearchChats(id) : SaveChat(chat, {})
  \/ \E id \in SearchIds : DeleteChat(id, {})
  \/ \E u \in IndexingUpdates, F \in FailSets : UpdateConfig(u, F)

SpecInit == Init /\ [][NextInit]_vars

---------------------------------------------------------------------------
(* The Configuration Provider over a chat_config key that may not parse, and
   the Store operations that initialize it *)
NextConfig ==
  \/ \E F \in FailSets : ConfigInitialize(F)
  \/ \E F \in FailSets : StorageInitialize(F)
  \/ \E id \in SearchIds : \E chat \in SearchChats(id) : SaveChat(chat, {})
  \/ \E id \in SearchIds : GetChat(id, {})
  \/ GetChats(0, {})
  \/ \E id \in SearchIds : DeleteChat(id, {})
  \/ \E u \in IndexingUpdates \cup HistUpdates, F \in FailSets : UpdateConfig(u, F)

InitConfig == InitWith(StoredConfigs \cup {Garbage}, {<<WelcomeMessage(0)>>})

SpecConfig == InitConfig /\ [][NextConfig]_vars

---------------------------------------------------------------------------
(* search() where storage calls may reject and Fuse may throw *)
NextThrow ==
  \/ \E id \in SearchIds : \E chat \in SearchChats(id) : SaveChat(chat, {})
  \/ \E id \in SearchIds : DeleteChat(id, {})
  \/ \E u \in IndexingUpdates : UpdateConfig(u, {})
  \/ SearchInitialize({})
  \/ RefreshIndex({})
  \/ \E query \in Queries, hits \in SUBSET SearchIds, F \in FailSets,
        T \in SUBSET FuseCalls : Search(query, hits, F, T)

SpecThrow == InitSearch /\ [][NextThrow]_vars

---------------------------------------------------------------------------
(* ChatTitleGenerator.generateTitle over conversations of every shape *)
TextPlease == <<"P", "l", "e", "a", "s", "e">>
TextCanYou == <<"c", "a", "n", " ", "y", "o", "u", " ", "?">>
TextPunctuation == <<"?", "!", ".">>
TextSentence == [i \in 1..(MAX_TITLE_LENGTH + 5) |-> IF i % 6 = 0 THEN " " ELSE "w"]

TextMonday ==
  <<"p", "l", "e", "a", "s", "e", " ", "p", "l", "a", "n", " ", "M", "o", "n", "d",
    "a", "y", ".">>

TitleTexts ==
  {<<>>, <<" ", "\t">>, TextPlease, TextCanYou, TextPunctuation, TextQuestion,
   TextSentence, TextMonday}

TitleMessages ==
  {Message("m", role, text, 0) : role \in {"user", "assistant"}, text \in TitleTexts}

\* conversations of up to MaxTitleLen messages, and one of six messages for
\* each message
TitleInputs ==
  UNION {[1..k -> TitleMessages] : k \in 0..MaxTitleLen}
    \cup {[i \in 1..6 |-> m] : m \in TitleMessages}

\* result: the title
GenerateTitle ==
  /\ lastOp' = [NoOp EXCEPT !.op = "generateTitle",
                            !.result = [kind |-> "title",
                                        text |-> generateTitle(hook.messages, now)]]
  /\ pure' = FALSE
  /\ UNCHANGED <<records, chatIndex, currentChatKey, configBlob, config,
                 configInitialized, storageInitialized, fuse, chats,
                 searchInitialized, now, saveOrder, hook, destroyed, calls>>

NextTitle == GenerateTitle \/ Tick

InitTitle == InitWith({Absent}, TitleInputs)

SpecTitle == InitTitle /\ [][NextTitle]_vars

---------------------------------------------------------------------------
(* The chat screen: the handlers of useChat, data stored by them alone *)
HookDone(op, r, F) ==
  [NoOp EXCEPT !.op = op, !.id = hook.currentChatId, !.faulty = Faulty(r.w, F)]

HookStep(op, r, F) ==
  /\ Real(r, F)
  /\ Commit(r.w)
  /\ hook' = r.h
  /\ lastOp' = HookDone(op, r, F)
  /\ UNCHANGED <<now, saveOrder, pure, calls>>

MountChat(readFirst, F) ==
  /\ ~hook.mounted
  /\ HookStep("mount", Mount(World, hook, now, readFirst, F), F)
  /\ UNCHANGED destroyed

HandleSend(messageText, input) ==
  /\ hook.mounted
  /\ ~hook.isTyping
  /\ (messageText # <<>> \/ trim(input) # <<>>)
  /\ Len(hook.messages) + 1 < MaxMessages   \* room for the message and its reply
  /\ hook' = handleSend(hook, messageText, input, now)
  /\ lastOp' = HookDone("handleSend", [w |-> World], {})
  /\ destroyed' = {}
  /\ UNCHANGED calls
  /\ UNCHANGED <<records, chatIndex, currentChatKey, configBlob, config,
                 configInitialized, storageInitialized, fuse, chats,
                 searchInitialized, now, saveOrder, pure>>

HandleReply(aiText, failed) ==
  /\ hook.isTyping
  /\ hook' = handleReply(hook, aiText, failed, now)
  /\ lastOp' = HookDone("handleReply", [w |-> World], {})
  /\ UNCHANGED <<records, chatIndex, currentChatKey, configBlob, config,
                 configInitialized, storageInitialized, fuse, chats,
                 searchInitialized, now, saveOrder, pure, destroyed, calls>>

\* the auto-save timer fires: the callback it holds runs
AutoSave(F) ==
  /\ hook.timer # Null
  /\ HookStep("autoSave",
              saveCurrentChat(World, [hook EXCEPT !.timer = Null], hook.timer, now, F),
              F)
  /\ UNCHANGED destroyed

\* the hook's saveChat: the manual save
SaveCurrentChat(F) ==
  /\ hook.mounted
  /\ HookStep("saveCurrentChat",
              saveCurrentChat(World, hook, Closure(hook), now, F), F)
  /\ UNCHANGED destroyed

CreateNewChat(F) ==
  /\ hook.mounted
  /\ hook.uuid < MaxHookIds
  /\ HookStep("createNewChat", createNewChat(World, hook, Closure(hook), now, F), F)
  /\ UNCHANGED destroyed

\* destroyed: the saved conversations (more than the welcome message) whose
\* deleteCurrentChat has completed
DeleteCurrentChat(F) ==
  /\ hook.mounted
  /\ hook.currentChatId # 0
  /\ hook.uuid < MaxHookIds
  /\ HookStep("deleteCurrentChat",
              deleteCurrentChat(World, hook, Closure(hook), now, F), F)
  /\ destroyed' = IF /\ records[hook.currentChatId].kind = "json"
                     /\ Len(hook.messages) > 1
                     /\ deleteChat(World, hook.currentChatId, F).ok
                  THEN destroyed \cup {hook.currentChatId}
                  ELSE destroyed

LoadChat(chatId, F) ==
  /\ hook.mounted
  /\ HookStep("loadChat", loadChat(World, hook, chatId, F), F)
  /\ UNCHANGED destroyed

NextHook ==
  \/ \E readFirst \in BOOLEAN : MountChat(readFirst, {})
  \/ \E messageText \in MessageTexts, input \in InputTexts : HandleSend(messageText, input)
  \/ \E aiText \in ReplyTexts, failed \in BOOLEAN : HandleReply(aiText, failed)
  \/ AutoSave({})
  \/ SaveCurrentChat({})
  \/ CreateNewChat({})
  \/ DeleteCurrentChat({})
  \/ \E chatId \in 1..MaxHookIds : LoadChat(chatId, {})

InitHook == Init /\ configBlob = Absent

SpecHook == InitHook /\ [][NextHook]_vars

---------------------------------------------------------------------------
(* The chat screen: edits and the auto-save timer *)
NextDebounce ==
  \/ \E readFirst \in BOOLEAN : MountChat(readFirst, {})
  \/ \E messageText \in MessageTexts, input \in InputTexts : HandleSend(messageText, input)
  \/ \E aiText \in ReplyTexts, failed \in BOOLEAN : HandleReply(aiText, failed)
  \/ AutoSave({})
  \/ SaveCurrentChat({})
  \/ CreateNewChat({})
  \/ Tick

SpecDebounce == InitHook /\ [][NextDebounce]_vars

(* and saves whose storage calls may reject *)
NextRetry ==
  \/ \E readFirst \in BOOLEAN : MountChat(readFirst, {})
  \/ \E messageText \in MessageTexts, input \in InputTexts : HandleSend(messageText, input)
  \/ \E aiText \in ReplyTexts, failed \in BOOLEAN : HandleReply(aiText, failed)
  \/ \E F \in FailSets : AutoSave(F)
  \/ \E F \in FailSets : SaveCurrentChat(F)
  \/ Tick

SpecRetry == InitHook /\ [][NextRetry]_vars

---------------------------------------------------------------------------
(* saveChat and deleteChat followed from one storage call to the next: a call
   is suspended at each await of AsyncStorage, and other handlers run meanwhile.
   The Store is initialized and the index stays within maxChatHistory. *)

\* a call that was started: by is who started it, c what that handler captured
Call(op, id, chat, by, c) ==
  [op |-> op, id |-> id, chat |-> chat, by |-> by, c |-> c,
   pc |-> "record", index |-> <<>>]

Start(call) ==
  /\ storageInitialized
  /\ Len(calls) < MaxCalls
  /\ calls' = Append(calls, call)

\* saveChat lines 121-124, deleteChat line 218: the record is written or removed
StepRecord(i) ==
  /\ i \in 1..Len(calls)
  /\ calls[i].pc = "record"
  /\ records' = [records EXCEPT ![calls[i].id] =
                   IF calls[i].op = "saveChat"
                   THEN JSONstringify(UpdatedChat(calls[i].chat, now))
                   ELSE Absent]
  /\ calls' = [calls EXCEPT ![i].pc = "read"]
  /\ lastOp' = [NoOp EXCEPT !.op = "step", !.id = calls[i].id]
  /\ pure' = FALSE
  /\ UNCHANGED <<chatIndex, currentChatKey, configBlob, config, configInitialized,
                 storageInitialized, fuse, chats, searchInitialized, now,
                 saveOrder, hook, destroyed>>

\* saveChat line 127, deleteChat line 221: the call reads the index
StepRead(i) ==
  /\ i \in 1..Len(calls)
  /\ calls[i].pc = "read"
  /\ calls' = [calls EXCEPT ![i].pc = "write", ![i].index = IndexIds(chatIndex)]
  /\ lastOp' = [NoOp EXCEPT !.op = "step", !.id = calls[i].id]
  /\ pure' = FALSE
  /\ UNCHANGED <<records, chatIndex, currentChatKey, configBlob, config,
                 configInitialized, storageInitialized, fuse, chats,
                 searchInitialized, now, saveOrder, hook, destroyed>>

\* saveChat lines 128-149, deleteChat lines 222-223: the index the call writes
Written(call) ==
  IF call.op = "saveChat" THEN MoveToFront(call.index, call.id)
  ELSE SelectSeq(call.index, LAMBDA chatId : chatId # call.id)

\* what the handler that awaited the call does next: [w, h, calls]
\* saveCurrentChat line 130; createNewChat lines 148-161; deleteCurrentChat
\* line 174, whose createNewChat saves what it captured (lines 144-146)
Resumed(call, w, rest) ==
  CASE call.by \in {"timer", "manual"} ->
         [w |-> w, h |-> MarkSaved(hook), calls |-> rest]
    [] call.by = "createNewChat" ->
         [w |-> setCurrentChatId(w, generateChatId(hook), {}).w,
          h |-> StartNewChat([w |-> w, h |-> MarkSaved(hook)],
                             generateChatId(hook), now, {}).h,
          calls |-> rest]
    [] call.by = "deleteCurrentChat" ->
         IF Len(call.c.messages) > 1
         THEN [w |-> w, h |-> hook,
               calls |-> Append(rest, Call("saveChat", call.id,
                                           BuildChat(hook, call.c, now),
                                           "createNewChat", call.c))]
         ELSE [w |-> setCurrentChatId(w, generateChatId(hook), {}).w,
               h |-> StartNewChat([w |-> w, h |-> hook],
                                  generateChatId(hook), now, {}).h,
               calls |-> rest]
    [] OTHER -> [w |-> w, h |-> hook, calls |-> rest]

Settled(call, r) ==
  /\ Commit(r.w)
  /\ hook' = r.h
  /\ calls' = r.calls
  /\ saveOrder' = IF call.op = "saveChat"
                  THEN <<call.id>> \o SelectSeq(saveOrder, LAMBDA c : c # call.id)
                  ELSE SelectSeq(saveOrder, LAMBDA c : c # call.id)
  /\ lastOp' = [NoOp EXCEPT !.op = call.op, !.id = call.id]
  /\ pure' = FALSE
  /\ UNCHANGED <<now, destroyed>>

\* saveChat line 149, deleteChat line 223: the index is written, the call
\* returns and the handler that awaited it goes on
StepWrite(i) ==
  /\ i \in 1..Len(calls)
  /\ calls[i].pc = "write"
  /\ Len(Written(calls[i])) <= config.maxChatHistory
  /\ calls[i].by \in {"createNewChat", "deleteCurrentChat"} => hook.uuid < MaxHookIds
  /\ Settled(calls[i],
             Resumed(calls[i],
                     [World EXCEPT !.index = StringifyIndex(Written(calls[i]))],
                     RemoveAt(calls, i)))

Started(call, h) ==
  /\ Start(call)
  /\ hook' = h
  /\ lastOp' = [NoOp EXCEPT !.op = "start", !.id = call.id]
  /\ pure' = FALSE
  /\ UNCHANGED <<records, chatIndex, currentChatKey, configBlob, config,
                 configInitialized, storageInitialized, fuse, chats,
                 searchInitialized, now, saveOrder, destroyed>>

\* the auto-save timer fires: lines 73-75 call saveCurrentChat() and do not
\* await it
TimerFires ==
  /\ hook.timer # Null
  /\ hook.timer.currentChatId # 0
  /\ Started(Call("saveChat", hook.timer.currentChatId,
                  BuildChat(hook, hook.timer, now), "timer", hook.timer),
             [hook EXCEPT !.timer = Null])

\* the manual save, lines 244-246
ManualSave ==
  /\ hook.mounted /\ hook.currentChatId # 0
  /\ Len(hook.messages) > 1
  /\ Started(Call("saveChat", hook.currentChatId,
                  BuildChat(hook, Closure(hook), now), "manual", Closure(hook)),
             hook)

\* createNewChat lines 144-146, for a conversation that has messages
NewChatPressed ==
  /\ hook.mounted /\ hook.currentChatId # 0
  /\ Len(hook.messages) > 1
  /\ Started(Call("saveChat", hook.currentChatId,
                  BuildChat(hook, Closure(hook), now), "createNewChat", Closure(hook)),
             hook)

\* deleteCurrentChat line 171
DeletePressed ==
  /\ hook.mounted /\ hook.currentChatId # 0
  /\ Started(Call("deleteChat", hook.currentChatId, Null, "deleteCurrentChat",
                  Closure(hook)),
             hook)

\* useChatHistory.deleteChat(chatId), from the history list
HistoryDelete(chatId) ==
  /\ hook.mounted
  /\ records[chatId] # Absent
  /\ Started(Call("deleteChat", chatId, Null, "history", Null), hook)

NextScreen ==
  \/ \E readFirst \in BOOLEAN : MountChat(readFirst, {})
  \/ \E messageText \in MessageTexts, input \in InputTexts : HandleSend(messageText, input)
  \/ \E aiText \in ReplyTexts, failed \in BOOLEAN : HandleReply(aiText, failed)
  \/ TimerFires
  \/ ManualSave
  \/ NewChatPressed
  \/ DeletePressed
  \/ \E chatId \in 1..MaxHookIds : HistoryDelete(chatId)
  \/ \E i \in 1..MaxCalls : StepRecord(i)
  \/ \E i \in 1..MaxCalls : StepRead(i)
  \/ \E i \in 1..MaxCalls : StepWrite(i)

SpecScreen == InitHook /\ [][NextScreen]_vars

(* The chat screen left to its auto-save: the timer fires when it is pending,
   and every storage call of a save returns *)
\* the storage call that some call in flight waits for returns
StorageReturns ==
  \E i \in 1..MaxCalls : StepRecord(i) \/ StepRead(i) \/ StepWrite(i)

NextTimer ==
  \/ \E readFirst \in BOOLEAN : MountChat(readFirst, {})
  \/ \E messageText \in MessageTexts, input \in InputTexts : HandleSend(messageText, input)
  \/ \E aiText \in ReplyTexts, failed \in BOOLEAN : HandleReply(aiText, failed)
  \/ TimerFires
  \/ StorageReturns
  \/ Tick

\* TimerFires is enabled: a timer is pending and its callback can start a save
TimerPending ==
  /\ hook.timer # Null /\ hook.timer.currentChatId # 0
  /\ storageInitialized /\ Len(calls) < MaxCalls

\* setTimeout runs a callback that stays pending, and AsyncStorage settles every
\* call: weak fairness of TimerFires, written out over TimerPending, and of
\* StorageReturns
SpecTimer ==
  /\ InitHook /\ [][NextTimer]_vars
  /\ ([]<>(~TimerPending) \/ []<><<TimerFires>>_vars)
  /\ WF_vars(StorageReturns)

(* Callers of the Store that do not wait for each other: each call is on an id
   that no call in flight has *)
OtherIds(id) == \A i \in 1..Len(calls) : calls[i].id # id

ClientSave(id) ==
  /\ OtherIds(id)
  /\ Started(Call("saveChat", id, OrderChat(id), "client", Null), hook)

ClientDelete(id) ==
  /\ OtherIds(id)
  /\ Started(Call("deleteChat", id, Null, "client", Null), hook)

NextRace ==
  \/ StorageInitialize({})
  \/ \E id \in FaultIds : ClientSave(id)
  \/ \E id \in FaultIds : ClientDelete(id)
  \/ \E i \in 1..MaxCalls : StepRecord(i)
  \/ \E i \in 1..MaxCalls : StepRead(i)
  \/ \E i \in 1..MaxCalls : StepWrite(i)

SpecRace == InitDelete /\ [][NextRace]_vars


(* The Store used by one caller at a time, every storage call succeeding, from
   empty storage; updateConfig brings maxChatHistory within reach *)
NextSequential ==
  \/ \E id \in ChatIds : SaveChat(OrderChat(id), {})
  \/ \E id \in ChatIds : DeleteChat(id, {})
  \/ ClearAllChats({})
  \/ \E id \in ChatIds : GetChat(id, {})
  \/ GetChats(0, {})
  \/ \E u \in HistUpdates : UpdateConfig(u, {})

SpecSequential == InitDelete /\ [][NextSequential]_vars

---------------------------------------------------------------------------
(* Claims about the Store *)

Loadable(id) == records[id].kind = "json"
Before(order, a, b) == indexOf(order, a) < indexOf(order, b)
Prefix(text, k) == [i \in 1..Min(k, Len(text)) |-> text[i]]

\* C1: after any sequence of operations, failed ones included, getChat(id) of an
\* id that is in the index either returns a session or has removed that id from
\* the index when it returns (the call's own storage calls succeeding).
C1_GetChatReturnsOrRemoves ==
  (lastOp.op = "getChat" /\ lastOp.pos > 0 /\ ~lastOp.faulty)
    => (lastOp.result # Null \/ lastOp.id \notin Range(ids))

\* C2: the index holds no id twice and lists its ids in descending order of
\* their last successful saveChat; the id saved last is at the front.
C2_MostRecentlySavedFirst ==
  /\ NoDup(ids)
  /\ Range(ids) \subseteq Range(saveOrder)
  /\ \A i, j \in 1..Len(ids) : i < j => Before(saveOrder, ids[i], ids[j])
  /\ (lastOp.op = "saveChat" /\ lastOp.ok) => (ids # <<>> /\ Head(ids) = lastOp.id)

\* a session that was in the index behind others is saved again
C2_Witness ==
  /\ lastOp.op = "saveChat" /\ lastOp.ok /\ lastOp.pos > 1
  /\ Len(ids) >= 2

\* C3: while only saveChat calls have run, all successful, the sessions that
\* getChat returns are the maxChatHistory most recently saved ones, they are
\* the index, and a session saved before them has neither record nor entry.
C3_EvictsLeastRecentlySaved ==
  pure =>
    LET kept == SubSeq(saveOrder, 1, Min(config.maxChatHistory, Len(saveOrder)))
    IN /\ ids = kept
       /\ \A id \in ChatIds : (getChat(World, id, {}).val # Null) <=> id \in Range(kept)
       /\ \A id \in Range(saveOrder) \ Range(kept) : records[id] = Absent

\* maxChatHistory + 1 sessions were saved, with maxChatHistory at least 2
C3_Witness ==
  /\ pure /\ lastOp.op = "saveChat"
  /\ config.maxChatHistory >= 2
  /\ Len(saveOrder) = config.maxChatHistory + 1

\* C4: between completed operations the index holds no id twice and at most
\* the current maxChatHistory ids.
C4_IndexWithinMaxChatHistory ==
  /\ NoDup(ids)
  /\ Len(ids) <= config.maxChatHistory

\* C5: after a successful saveChat(s) the record of s has messageCount equal
\* to the number of messages of s and lastMessagePreview equal to the first
\* 100 characters of the text of its last message, empty when it has none.
C5_MetadataRecomputed ==
  (lastOp.op = "saveChat" /\ lastOp.ok) =>
    LET s == lastOp.arg
        rec == records[s.id]
    IN /\ rec.kind = "json"
       /\ rec.metadata.messageCount = Len(s.messages)
       /\ rec.metadata.lastMessagePreview =
            IF s.messages = <<>> THEN <<>>
            ELSE Prefix(s.messages[Len(s.messages)].text, PreviewLen)

\* the caller passed a wrong count, or a last message longer than the preview
C5_Witness ==
  /\ lastOp.op = "saveChat" /\ lastOp.ok
  /\ \/ lastOp.arg.metadata.messageCount # Len(lastOp.arg.messages)
     \/ /\ lastOp.arg.messages # <<>>
        /\ Len(lastOp.arg.messages[Len(lastOp.arg.messages)].text) > PreviewLen

\* C6: getChat(s.id) right after a successful saveChat(s) returns a session
\* with the id, title, createdAt, messages and tags of s; it returns one
\* whenever none of its storage calls rejects.
C6_SaveThenGetRoundTrip ==
  (lastOp.op = "getChat" /\ lastOp.arg # Null) =>
    /\ ~lastOp.faulty => lastOp.result # Null
    /\ lastOp.result # Null =>
         /\ lastOp.result.id = lastOp.arg.id
         /\ lastOp.result.title = lastOp.arg.title
         /\ lastOp.result.createdAt = lastOp.arg.createdAt
         /\ lastOp.result.messages = lastOp.arg.messages
         /\ lastOp.result.metadata.tags = lastOp.arg.metadata.tags

\* a session of two messages and a tag came back, with recomputed metadata
C6_Witness ==
  /\ lastOp.op = "getChat" /\ lastOp.arg # Null /\ lastOp.result # Null
  /\ Len(lastOp.result.messages) >= 2
  /\ lastOp.result.metadata.tags # <<>>
  /\ lastOp.result.updatedAt # lastOp.arg.updatedAt

\* C7: getChat of a session whose stored value cannot be deserialized returns
\* absent; when its storage calls succeed the record and the index entry are
\* gone; getChats never returns a session whose stored value is not readable.
C7_CorruptedSessionRemoved ==
  /\ (lastOp.op = "getChat" /\ lastOp.had = "garbage") =>
       /\ lastOp.result = Null
       /\ ~lastOp.faulty =>
            (records[lastOp.id] = Absent /\ lastOp.id \notin Range(ids))
  /\ \A id \in ChatIds :
       records[id] = Garbage =>
         \A F \in FailSets :
           LET g == getChat(World, id, F)
           IN /\ g.val = Null
              /\ ~Faulty(g.w, F) =>
                   (g.w.records[id] = Absent /\ id \notin Range(IndexIds(g.w.index)))
  /\ LET listed == getChats(World, 0, {}).val
     IN \A i \in 1..Len(listed) : Loadable(listed[i].id)

\* getChat met a corrupted session that was in the index, beside another one
C7_Witness ==
  /\ lastOp.op = "getChat" /\ lastOp.had = "garbage" /\ lastOp.pos > 0
  /\ ~lastOp.faulty
  /\ ids # <<>>

---------------------------------------------------------------------------
(* Claims about the Search Index Manager *)

\* the sessions search() can return, and the sessions the Store holds
\* C8: once deleteCurrentChat has completed for a saved conversation holding
\* more than the welcome message, the Store has no record and no index entry
\* of that session id, until the user sends a new message.
C8_DeletedSessionDestroyed ==
  \A id \in destroyed : records[id] = Absent /\ id \notin Range(ids)


Searchable == IF fuse = Null THEN {} ELSE Range(fuse.docs)
Held == Range(getChats(World, config.maxChatHistory, {}).val)

\* C9: when refreshIndex() has returned, search() is answered from exactly
\* the sessions the Store holds: it returns no session the Store does not
\* hold, and with indexing enabled every session the Store holds is indexed.
C9_RefreshRebuildsFromStore ==
  lastOp.op = "refreshIndex" =>
    /\ Searchable \subseteq Held
    /\ config.enableSearchIndexing => Held \subseteq Searchable

\* C10: saveChat, deleteChat and clearAllChats of the Store leave the
\* sessions search() can return, and getIndexSize(), as they were.
C10_StoreWritesLeaveSnapshot ==
  [][lastOp'.op \in {"saveChat", "deleteChat", "clearAllChats"}
       => (fuse' = fuse /\ chats' = chats)]_vars

\* a session was saved after the index was built and is not in it as saved
C10_Witness ==
  /\ lastOp.op = "saveChat" /\ lastOp.ok
  /\ searchInitialized /\ fuse # Null /\ fuse.docs # <<>>
  /\ getChat(World, lastOp.id, {}).val \notin Searchable
  /\ \E doc \in Searchable : doc.id = lastOp.id

\* C11: whenever enableSearchIndexing is false, search(query) returns the
\* empty sequence, also after indexing was on at initialize() and switched
\* off by a configuration update followed by refreshIndex().
C11_SearchEmptyWhenIndexingOff ==
  (lastOp.op = "search" /\ ~config.enableSearchIndexing) => lastOp.result = <<>>

\* the sessions searchChats is to return: of the first maxChatHistory ids of
\* the index, those whose record loads and whose title or one of whose message
\* texts contains the query, letter case apart
Contains(text, query) ==
  \E i \in 1..Len(text) :
    /\ i + Len(query) - 1 <= Len(text)
    /\ \A k \in 1..Len(query) : toLowerCase(<<text[i + k - 1]>>) = toLowerCase(<<query[k]>>)
Matching(id, query) ==
  /\ records[id].kind = "json"
  /\ \/ Contains(records[id].title, query)
     \/ \E i \in 1..Len(records[id].messages) : Contains(records[id].messages[i].text, query)
Expected(query, maxChats) ==
  IF \A i \in 1..Len(query) : query[i] \in Whitespace THEN <<>>
  ELSE SelectSeq(SubSeq(ids, 1, Min(maxChats, Len(ids))), LAMBDA id : Matching(id, query))

\* C12: searchChats(query) returns, in index order, exactly the sessions among
\* those loaded from the first maxChatHistory ids of the index whose title or
\* one of whose message texts contains the query, letter case apart; a blank
\* query returns nothing.
C12_SearchChatsSubstring ==
  [][lastOp'.op = "searchChats"
       => lastOp'.result = Expected(lastOp'.arg.text, config'.maxChatHistory)]_vars

\* three sessions are saved, only the first has "sleep" (as "Sleep", in a
\* message), and searchChats("sleep") returned it alone
C12_Witness ==
  /\ lastOp.op = "searchChats" /\ lastOp.arg.text = TextSleep
  /\ lastOp.result = <<1>>
  /\ Len(ids) = 3 /\ \A id \in 1..3 : records[id].kind = "json"

\* C13: getChats(limit) returns, in index order, the sessions that load among
\* the first `limit` ids of the index, for every limit that is passed, and
\* among the first maxChatsInDrawer ids only when no limit is passed.
C13_GetChatsReadsLimit ==
  [][lastOp'.op = "getChats"
       => LET read == IF lastOp'.arg = Null THEN config'.maxChatsInDrawer
                      ELSE lastOp'.arg.value
          IN lastOp'.result = SelectSeq(SubSeq(ids, 1, Min(read, Len(ids))),
                                        LAMBDA id : records[id].kind = "json")]_vars

\* a deleteChat whose own storage calls succeed, of an id that is not in the
\* index or whose record is already absent
DeletedAgain ==
  /\ lastOp'.op = "deleteChat" /\ ~lastOp'.faulty
  /\ (lastOp'.pos = 0 \/ lastOp'.had = "absent")

OthersKept ==
  \A other \in ChatIds \ {lastOp'.id} : records'[other] = records[other]

\* C14 as stated: such a deleteChat does not raise and leaves the index
\* contents and every other session's record unchanged.
C14_DeleteMissingChangesNothing ==
  [][DeletedAgain => (lastOp'.ok /\ IndexIds(chatIndex') = ids /\ OthersKept)]_vars

\* C14 amended: such a deleteChat does not raise, leaves every other session's
\* record and every other id's index entry unchanged, and leaves neither a
\* record nor an index entry of the id itself.
C14_DeleteMissingKeepsOthers ==
  [][DeletedAgain =>
       /\ lastOp'.ok
       /\ IndexIds(chatIndex') = SelectSeq(ids, LAMBDA c : c # lastOp'.id)
       /\ records'[lastOp'.id] = Absent
       /\ OthersKept]_vars

\* an id still in the index whose record was already absent was deleted,
\* beside another session that stays stored and listed
C14_Witness ==
  /\ lastOp.op = "deleteChat" /\ lastOp.ok /\ ~lastOp.faulty
  /\ lastOp.had = "absent" /\ lastOp.pos > 0
  /\ \E other \in ChatIds \ {lastOp.id} :
       records[other].kind = "json" /\ other \in Range(ids)

\* C15: after a successful clearAllChats() the index is empty, getChats()
\* returns the empty sequence, and getChat(id) returns absent for every id
\* that was in the index before the call.
C15_ClearAllChatsEmpties ==
  (lastOp.op = "clearAllChats" /\ lastOp.ok) =>
    /\ ids = <<>>
    /\ getChats(World, 0, {}).val = <<>>
    /\ \A id \in Range(lastOp.arg.ids) : getChat(World, id, {}).val = Null

\* C16: initialize() of the Store, of the Configuration Provider and of the
\* Search Index Manager, called on a singleton that is initialized, makes no
\* storage call and leaves the in-memory config, the search snapshot and all
\* persisted data as they were, whatever was saved, deleted or configured
\* since the first call.
C16_InitializeIdempotent ==
  [][(lastOp'.op \in {"configInitialize", "initialize", "searchInitialize"}
        /\ lastOp'.arg.again)
       => /\ lastOp'.result.n = 0
          /\ UNCHANGED <<records, chatIndex, currentChatKey, configBlob, config,
                         configInitialized, storageInitialized, fuse, chats,
                         searchInitialized>>]_vars

\* the Search Index Manager was initialized again while the Store held a
\* session its snapshot does not have and the persisted config differed from
\* the one in memory
C16_Witness ==
  /\ lastOp.op = "searchInitialize" /\ lastOp.arg.again
  /\ Held # Range(chats)
  /\ configBlob.kind = "json" /\ configBlob.value # config

\* C17: updateConfig(partial) leaves in memory the previous config with the
\* fields of partial replaced, whether or not the write succeeds; when the
\* write succeeds the persisted blob is that merged config, and when the write
\* fails the call fails and the persisted blob is unchanged.
C17_UpdateConfigMergesThenWrites ==
  [][lastOp'.op = "updateConfig"
       => LET partial == lastOp'.arg.value
          IN /\ DOMAIN config' = DOMAIN config
             /\ \A f \in DOMAIN config :
                  config'[f] = IF f \in DOMAIN partial THEN partial[f] ELSE config[f]
             /\ lastOp'.ok = ~lastOp'.faulty
             /\ IF lastOp'.faulty
                THEN configBlob' = configBlob
                ELSE configBlob' = [kind |-> "json", value |-> config']]_vars

\* an update that turned indexing off failed: the config in memory has it off,
\* the persisted one still has it on
C17_Witness ==
  /\ lastOp.op = "updateConfig" /\ ~lastOp.ok
  /\ lastOp.arg.value = [enableSearchIndexing |-> FALSE]
  /\ ~config.enableSearchIndexing
  /\ configBlob.kind = "json" /\ configBlob.value.enableSearchIndexing

\* the defaults of types/chatHistory.ts
Defaults ==
  [maxChatsInDrawer |-> 20, maxChatHistory |-> 100, searchDebounceMs |-> 300,
   autoSaveIntervalMs |-> 5000, enableSearchIndexing |-> TRUE]

StoreOps == {"initialize", "saveChat", "getChat", "getChats", "deleteChat"}

\* C18: the first initialize() of the Configuration Provider completes and
\* leaves the provider initialized; when reading chat_config rejects or the
\* stored text does not parse, the config is the defaults.  A Store operation
\* that performs this initialization over a chat_config that does not parse
\* completes as well (its own storage calls succeeding), with the defaults.
C18_ConfigInitializeNeverFails ==
  [][/\ (lastOp'.op \in {"configInitialize", "initialize"} /\ ~configInitialized)
          => /\ lastOp'.ok
             /\ configInitialized'
             /\ (lastOp'.faulty \/ configBlob = Garbage) => config' = Defaults
     /\ (lastOp'.op \in StoreOps /\ ~configInitialized /\ ~lastOp'.faulty
           /\ configBlob = Garbage)
          => /\ lastOp'.ok
             /\ configInitialized' /\ storageInitialized'
             /\ config' = Defaults]_vars

\* initialize() could not read a stored config that differs from the defaults,
\* after an update had changed the config in memory
C18_Witness ==
  /\ lastOp.op = "configInitialize" /\ ~lastOp.arg.again /\ lastOp.faulty /\ lastOp.ok
  /\ configInitialized
  /\ config = Defaults
  /\ configBlob.kind = "json" /\ ~configBlob.value.enableSearchIndexing

\* C19: search(query) does not raise, and it returns the empty sequence where
\* the query is empty or whitespace and where building the index or querying
\* it failed during the call.
C19_SearchNeverRaises ==
  lastOp.op = "search" =>
    /\ lastOp.ok
    /\ (IsBlank(lastOp.arg.text) \/ lastOp.arg.thrown # {}) => lastOp.result = <<>>

\* C20: generateTitle(messages) is "New Chat" where no message has role user,
\* and it is a non-empty string for every conversation.
C20_TitleNeverEmpty ==
  lastOp.op = "generateTitle" =>
    /\ lastOp.result.text # <<>>
    /\ (\A i \in 1..Len(hook.messages) : hook.messages[i].role # "user")
         => lastOp.result.text = <<"N", "e", "w", " ", "C", "h", "a", "t">>

\* a title was generated for a conversation whose first user message leaves
\* nothing once its prefix and its punctuation are removed
C20_Witness ==
  /\ lastOp.op = "generateTitle"
  /\ Len(hook.messages) = 1
  /\ hook.messages[1].role = "user" /\ hook.messages[1].text = TextCanYou
  /\ lastOp.result.text # <<>>
  /\ lastOp.result.text # <<"N", "e", "w", " ", "C", "h", "a", "t">>

\* the text as the user typed it, less the first listed prefix it starts with
\* (whatever the case), with its first letter capitalized and its trailing
\* run of . ! ? removed
PrefixesOf(text) ==
  {k \in 1..Len(Prefixes) : startsWith(toLowerCase(text), Prefixes[k] \o <<" ">>)}

WithoutPrefix(text) ==
  IF PrefixesOf(text) = {} THEN text
  ELSE LET k == CHOOSE k \in PrefixesOf(text) : \A j \in PrefixesOf(text) : k <= j
       IN SubSeq(text, Len(Prefixes[k]) + 2, Len(text))

Capitalized(text) ==
  IF text = <<>> THEN <<>> ELSE toUpperCase(<<Head(text)>>) \o Tail(text)

AsTyped(text) == StripTrailingPunctuation(Capitalized(WithoutPrefix(trim(text))))

FirstUserText == Head(SelectSeq(hook.messages, LAMBDA msg : msg.role = "user")).text

HasUserMessage == \E i \in 1..Len(hook.messages) : hook.messages[i].role = "user"

\* C21: where the cleaned form of the first user message has 10 to 50
\* characters, generateTitle returns that text as typed, with at most one
\* listed prefix removed, the first letter capitalized and the trailing
\* . ! ? removed.
C21_TitleKeepsTyping ==
  (lastOp.op = "generateTitle" /\ HasUserMessage
     /\ Len(AsTyped(FirstUserText)) \in MIN_TITLE_LENGTH..MAX_TITLE_LENGTH)
    => lastOp.result.text = AsTyped(FirstUserText)

\* every id of the persisted index has a stored record
Backed(index, stored) == \A id \in Range(IndexIds(index)) : stored[id] # Absent

\* C22: a saveChat that aborts because one of its storage writes or removes
\* failed, those of the eviction step included, leaves every id of the
\* persisted index with a stored record (where that was so before the call).
C22_FailedSaveLeavesIndexBacked ==
  [][(lastOp'.op = "saveChat" /\ ~lastOp'.ok /\ Backed(chatIndex, records))
       => Backed(chatIndex', records')]_vars

\* C23: no two Store mutations of the same session are in flight at once.
C23_OneMutationPerSession ==
  \A i, j \in 1..Len(calls) : i # j => calls[i].id # calls[j].id

Edits == {"handleSend", "handleReply"}

Unsaved ==
  \/ hook.currentChatId = 0
  \/ records[hook.currentChatId].kind # "json"
  \/ Len(records[hook.currentChatId].messages) # Len(hook.messages)

\* C25: when a save of the hook has failed and the conversation is left
\* unsaved, the hook has a retry pending (its auto-save timer is armed, with
\* no further edit) -- the hook keeps no error state that the screen could
\* show.
C25_FailedSaveIsRetried ==
  (lastOp.op \in {"autoSave", "saveCurrentChat"} /\ lastOp.faulty /\ Unsaved
     /\ Len(hook.messages) > 1)
    => hook.timer # Null

\* C26: once every call on different ids has returned, whatever the order of
\* their storage calls was, the persisted index holds every id whose last
\* call was a saveChat and no id whose last call was a deleteChat.
C26_InterleavedIndex ==
  calls = <<>> => Range(ids) = Range(saveOrder)

\* C27: getChat and getChats never remove a stored record that is
\* well-formed, whether or not a storage call rejects meanwhile.
C27_ReadsKeepWellFormed ==
  [][lastOp'.op \in {"getChat", "getChats"}
       => \A id \in 1..MaxIds :
            records[id].kind = "json" => records'[id] = records[id]]_vars

\* the ids that have a stored record
StoredIds == {id \in 1..MaxIds : records[id] # Absent}

\* C28: with one caller at a time and no failing storage call, after every
\* operation the ids that have a stored record are the ids of the persisted
\* index, also after an eviction.
C28_RecordsMatchIndex ==
  StoredIds = Range(ids)

\* a save has evicted a session that had been saved
C28_Witness ==
  /\ lastOp.op = "saveChat" /\ lastOp.ok
  /\ Len(ids) = config.maxChatHistory
  /\ \E id \in Range(saveOrder) : id \notin Range(ids) /\ records[id] = Absent

\* C29: a conversation of more than the welcome message that has unsaved
\* changes is eventually stored with all the messages the screen shows, once
\* the edits have stopped, the timer being fair and the storage calls
\* succeeding.
C29_UnsavedIsEventuallySaved ==
  (hook.hasUnsavedChanges /\ Len(hook.messages) > 1)
    ~> (Len(hook.messages) <= 1 \/ ~Unsaved)

\* C30: a save of the hook that writes over the stored record of its
\* conversation leaves the record's createdAt as the first save set it.
C30_ResaveKeepsCreatedAt ==
  [][(/\ lastOp'.op \in {"autoSave", "saveCurrentChat"}
      /\ lastOp'.id # 0
      /\ records[lastOp'.id].kind = "json"
      /\ records'[lastOp'.id].kind = "json")
       => records'[lastOp'.id].createdAt = records[lastOp'.id].createdAt]_vars

====
